---- MODULE Spec2Model ----
(***************************************************************************)
(* Model of the Remote API reader of loggo                                 *)
(* (internal/reader/gcp_reader.go): one gcpStream, the goroutine that      *)
(* StreamInto launches (historical loop streamFrom, then streamTail), the  *)
(* consumer that drains the record channel, and the caller's Close.        *)
(*                                                                         *)
(* Time.  An entry timestamp is a number of ticks; SubSec ticks make one   *)
(* second.  time.RFC3339 has no fractional part and writes the zone of the *)
(* time it formats, so a formatted time is modelled by the whole seconds   *)
(* it denotes together with its zone suffix (RFC3339): two strings for the *)
(* same instant in two zones differ.  The backend reads a string back as   *)
(* an instant (ParseRFC3339).  The literal time range "tail" is TailRange. *)
(*                                                                         *)
(* The pure functions and the other components of the package are          *)
(* exercised by specifications of their own, each starting from its        *)
(* arguments: massageEntryLog (NormSpec), ParseFrom (ParseSpec), CheckAuth *)
(* (AuthSpec), and the File Reader behind reader.MakeReader (FileSpec).    *)
(***************************************************************************)
EXTENDS Integers, Sequences, FiniteSets, TLC

\* ---- bounds of the model
MaxEntries == 2
MaxTail == 2
\* ticks per second of the model's clock
SubSec == 2

\* ---- program constants
\* capacity of the channel MakeGCPReader allocates
ChanCap == 1
\* the literal time range "tail"
TailRange == [sec |-> 0, zone |-> "tail"]

\* the zone suffix of a time in UTC, and the zones a machine may be set to
\* (time.Local)
UTC == "Z"
Zones == {UTC, "+01:00"}

Nil == "nil"
SetupErr == "client: setup failed"
QueryErr == "ListLogEntries: transport error"
TailOpenErr == "TailLogEntries: transport error"
TailSendErr == "stream.Send: transport error"
TailRecvErr == "stream.Recv: transport error"
SendOnClosed == "send on closed channel"

\* user predicates (s.filter): none, or one that selects the ERROR entries
NoPredicate == ""
ErrorsOnly == "severity>=ERROR"
Predicates == {NoPredicate, ErrorsOnly}

\* entry timestamps: inside the second of the resume point (tick 0), on the
\* next whole second, and inside that second.  An entry that is not later
\* than the resume point is selected by no Filter.
Ticks == {1, SubSec, SubSec + 1}
LatestTick == SubSec + 1

\* the shapes of raw entries the backend holds: severity and payload oneof
Shapes ==
  { [sev |-> "INFO", payload |-> [kind |-> "json", val |-> "obj"]],
    [sev |-> "ERROR", payload |-> [kind |-> "text", val |-> "msg"]] }

LogEntry(id, ts, shape) ==
  [id |-> id, ts |-> ts, sev |-> shape.sev, payload |-> shape.payload]

VARIABLES
  location, freshness, sFilter, isTail, stop, strChan, closed, onError,
  mpc, err, result,
  ppc, lastTime, lastFilter, it, chunk, rv,
  backend, nextId, arrived, batches, cpc,
  sent, produced, received, callbacks, tailEntered, queries,
  fault, crashed, fromExit, tailExit, failures, sentAtFailure,
  lateIngest, launched,
  npc, raw, norm,
  fpc, fromStr, parsed,
  apc, gpc, screen, exited, probe, isGCloud, cmdOk, screenOk,
  rpc, disk, atPath, handle, readPos, lastSize, out, nextLine, rotations,
  pending

cfgVars == <<location, freshness, sFilter, isTail, onError>>
chanVars == <<strChan, closed>>
mainVars == <<mpc, err, result>>
locVars == <<lastTime, lastFilter, it, chunk, rv>>
prodVars == <<ppc, locVars>>
envVars == <<backend, nextId, arrived, batches, lateIngest>>
closeVars == <<stop, cpc>>
outVars == <<sent, produced>>
repVars == <<callbacks, failures, sentAtFailure>>
cntVars == <<tailEntered, queries, launched>>
faultVars == <<fault, crashed>>
exitVars == <<fromExit, tailExit>>
ghostVars == <<outVars, received, repVars, cntVars, faultVars, exitVars>>
\* one call of massageEntryLog on its own: position, argument, result
normVars == <<npc, raw, norm>>
\* the components that are exercised apart from the reader
\* one call of ParseFrom: position, argument, outcome
parseVars == <<fpc, fromStr, parsed>>
\* one call of CheckAuth: its position, the position of the goroutine it
\* starts, the screen of the tview application, whether the process has
\* exited; and what the environment answers: the access probe, gcp.IsGCloud,
\* the gcloud command, the terminal
authVars == <<apc, gpc, screen, exited, probe, isGCloud, cmdOk, screenOk>>
\* the File Reader and the file it follows: the reader's position, its open
\* handle, how far it has read, the size it saw at its last read, what it has
\* delivered; the files by identity, the file at the watched path; and the
\* history: lines written, rotations made, a rotation not yet detected
fileVars ==
  <<rpc, disk, atPath, handle, readPos, lastSize, out, nextLine, rotations,
    pending>>
otherVars == <<normVars, parseVars, authVars, fileVars>>
vars == <<cfgVars, chanVars, mainVars, prodVars, envVars, closeVars, ghostVars,
          otherVars>>

\* ---- pure helpers ------------------------------------------------------

\* t.Format(time.RFC3339) of a time in the given zone: the sub-second part
\* of the instant is dropped, the zone is written as the suffix
RFC3339(ts, zone) == [sec |-> ts \div SubSec, zone |-> zone]

\* the backend reading an RFC3339 string back as an instant
ParseRFC3339(str) == str.sec * SubSec

\* fmt.Sprintf(`timestamp > "%s"`, lastTime)
TimestampFilter(t) == <<"timestamp >", t>>

\* fmt.Sprintf(`timestamp > "%s" AND (%s)`, lastTime, s.filter)
FullFilter(t, pred) == <<"timestamp >", t, "AND", pred>>

\* the backend's evaluation of the user predicate on one entry
Matches(e, pred) == pred = NoPredicate \/ e.sev = "ERROR"

\* the backend's evaluation of a historical Filter on one entry
Selects(f, e) ==
  /\ e.ts > ParseRFC3339(f[2])
  /\ (Len(f) = 4 => Matches(e, f[4]))

\* e comes before d in the default order of ListLogEntries (timestamp asc)
Before(e, d) == e.ts < d.ts \/ (e.ts = d.ts /\ e.id < d.id)

RECURSIVE SortAsc(_)
SortAsc(S) ==
  IF S = {} THEN <<>>
  ELSE LET first == CHOOSE e \in S : \A d \in S \ {e} : Before(e, d)
       IN <<first>> \o SortAsc(S \ {first})

RECURSIVE SortDesc(_)
SortDesc(S) ==
  IF S = {} THEN <<>>
  ELSE LET last == CHOOSE e \in S : \A d \in S \ {e} : Before(d, e)
       IN <<last>> \o SortDesc(S \ {last})

\* c.ListLogEntries with a request that sets no OrderBy: the entries the
\* Filter selects, oldest first
ListLogEntries_Desc(store, f) == SortDesc({e \in store : Selects(f, e)})
ListLogEntries(store, f) == SortAsc({e \in store : Selects(f, e)})

\* a map without keys (make(map[string]interface{}))
EmptyMap == [k \in {} |-> ""]

\* an entry that carries no timestamp reads as the epoch, instant 0
\* (GetTimestamp() of a missing field is nil, AsTime() of nil is Unix 0); an
\* entry that carries no severity reads as DEFAULT, the enumeration's zero
HasTimestamp(resp) == resp.ts # 0
HasSeverity(resp) == resp.sev # "DEFAULT"

\* the protobuf enumeration number of a severity, as encoding/json writes it
SeverityNumber(sev) ==
  IF sev = "ERROR" THEN "500" ELSE IF sev = "INFO" THEN "200" ELSE "0"

\* json.Marshal(resp) succeeds unless the entry holds a float that JSON
\* cannot express (a NaN or an infinity in a number of the structured
\* payload)
Marshalable(resp) ==
  ~(resp.payload.kind = "json" /\ resp.payload.val = "nan")

\* json.Marshal(resp) followed by json.Unmarshal into a map, both errors
\* dropped: the exported fields under their json names (omitempty leaves
\* out the unset ones) and the payload oneof under the key Payload; when
\* Marshal fails there are no bytes, Unmarshal fails and the map stays empty
MarshalToMap(resp) ==
  IF ~Marshalable(resp) THEN EmptyMap
  ELSE ("insert_id" :> resp.id)
       @@ (IF HasSeverity(resp)
             THEN "severity" :> SeverityNumber(resp.sev) ELSE EmptyMap)
       @@ (IF HasTimestamp(resp)
             THEN ("timestamp" :> resp.ts) @@ ("receive_timestamp" :> resp.ts)
             ELSE EmptyMap)
       @@ ("Payload" :> resp.payload)

\* m[k] = v
SetKey(m, k, v) == (k :> v) @@ m

\* delete(m, k)
DeleteKey(m, k) == [x \in DOMAIN m \ {k} |-> m[x]]

\* resp.GetJsonPayload() != nil, len(resp.GetTextPayload()) > 0
HasJsonPayload(resp) == resp.payload.kind = "json"
HasTextPayload(resp) == resp.payload.kind = "text" /\ resp.payload.val # ""

\* the panic of m["Payload"].(map[string]interface{}) when the key is absent
NotAMap == "interface conversion: interface {} is nil"

\* massageEntryLog: the normalized record and the entry's formatted time;
\* fault is the panic raised instead of a return, if any
massageEntryLog(resp) ==
  LET t == RFC3339(resp.ts, location)
      m0 == MarshalToMap(resp)
      m1 == SetKey(SetKey(m0, "severity", resp.sev), "timestamp", t)
      copies == HasJsonPayload(resp) \/ HasTextPayload(resp)
      m2 == IF ~copies \/ "Payload" \notin DOMAIN m1 THEN m1
            ELSE IF HasJsonPayload(resp)
              THEN SetKey(m1, "jsonPayload", m1.Payload.val)
            ELSE SetKey(m1, "textPayload", m1.Payload.val)
  IN [b |-> DeleteKey(DeleteKey(m2, "Payload"), "receive_timestamp"),
      lastTime |-> t,
      fault |-> IF copies /\ "Payload" \notin DOMAIN m1 THEN NotAMap ELSE Nil]

Ids(s) == [i \in 1..Len(s) |-> s[i].id]
Records(s) == [i \in 1..Len(s) |-> s[i].rec]
\* what the source yields, and what the producer pushes, as (entry, mode)
Yielded(s, mode) == [i \in 1..Len(s) |-> [id |-> s[i].id, mode |-> mode]]
Pushed(s) == [i \in 1..Len(s) |-> [id |-> s[i].id, mode |-> s[i].mode]]
IsPrefix(s, t) == Len(s) <= Len(t) /\ SubSeq(t, 1, Len(s)) = s
InMode(s, mode) == SelectSeq(s, LAMBDA x : x.mode = mode)

\* ---- construction ------------------------------------------------------

\* MakeGCPReader(project, filter, freshness, nil).  The time range is the
\* literal tail or the instant 0 as ParseFrom formats an absolute time, in
\* UTC; the machine's zone is UTC or not.  (A relative time range is
\* formatted in the machine's zone, as the watermarks are: it compares with
\* them as the UTC string does on a machine set to UTC.)
MakeGCPReader ==
  /\ location \in Zones
  /\ freshness \in {TailRange, RFC3339(0, UTC)}
  /\ sFilter \in Predicates
  /\ isTail = (freshness = TailRange)
  /\ onError \in BOOLEAN
  /\ stop = FALSE
  /\ strChan = <<>>
  /\ closed = FALSE
  /\ mpc = "new"
  /\ err = Nil
  /\ result = "pending"
  /\ ppc = "idle"
  /\ lastTime = RFC3339(0, UTC)
  /\ lastFilter = <<>>
  /\ it = <<>>
  /\ chunk = <<>>
  /\ rv = Nil
  /\ backend = {}
  /\ nextId = 1
  /\ arrived = FALSE
  /\ batches = 0
  /\ cpc = "open"
  /\ sent = <<>>
  /\ produced = <<>>
  /\ received = <<>>
  /\ callbacks = <<>>
  /\ tailEntered = 0
  /\ queries = 0
  /\ fault = Nil
  /\ crashed = FALSE
  /\ fromExit = "none"
  /\ tailExit = "none"
  /\ failures = <<>>
  /\ sentAtFailure = 0
  /\ lateIngest = FALSE
  /\ launched = 0

\* massageEntryLog is not being called on its own
NormIdle == npc = "idle" /\ raw = <<>> /\ norm = <<>>

\* ParseFrom is not being called
ParseIdle == fpc = "idle" /\ fromStr = <<>> /\ parsed = <<>>

\* CheckAuth is not being called
AuthIdle ==
  /\ apc = "idle" /\ gpc = "idle" /\ screen = "none" /\ exited = FALSE
  /\ probe = "ok" /\ isGCloud = FALSE /\ cmdOk = TRUE /\ screenOk = TRUE

\* no File Reader has been made
FileIdle ==
  /\ rpc = "none" /\ disk = <<>> /\ atPath = 0 /\ handle = 0 /\ readPos = 0
  /\ lastSize = 0 /\ out = <<>> /\ nextLine = 0 /\ rotations = 0
  /\ pending = FALSE

Init == MakeGCPReader /\ NormIdle /\ ParseIdle /\ AuthIdle /\ FileIdle

\* a reader that is constructed and not started
ReaderIdle ==
  MakeGCPReader /\ freshness = TailRange /\ sFilter = NoPredicate /\ ~onError

\* ---- the environment ---------------------------------------------------

\* the historical loop is over when the timestamp-only filter repeats
Exhausted_Inverted(filter, last) == filter # last
Exhausted(filter, last) == filter = last

\* the shape of the live entry with the given id: one that the user's
\* predicate selects, of alternating kind when there is no predicate
LiveShape(pred, id) ==
  CHOOSE sh \in Shapes :
    sh.sev = (IF pred = NoPredicate /\ id % 2 = 0 THEN "INFO" ELSE "ERROR")

\* the entries of a backend that serves the given predicate.  Without a
\* predicate the shape of an entry changes nothing in the reader but the
\* record: stored entries then alternate in kind, as live ones do
Served(E, pred) ==
  pred = NoPredicate
    => \A e \in E : [sev |-> e.sev, payload |-> e.payload]
                       = LiveShape(pred, e.id)

\* a total order on what arrives together: by timestamp, then by shape
ArrivalKey(a) == 2 * a[1] + (IF a[2].sev = "ERROR" THEN 1 ELSE 0)

RECURSIVE Arrivals(_, _)
Arrivals(A, id0) ==
  IF A = {} THEN {}
  ELSE LET a == CHOOSE x \in A : \A y \in A : ArrivalKey(x) <= ArrivalKey(y)
       IN {LogEntry(id0, a[1], a[2])} \cup Arrivals(A \ {a}, id0 + 1)

\* the backend stores new entries (any timestamps: entries may arrive
\* late).  The program reads the backend only in the page fetch of a query,
\* so what has arrived since the previous fetch is added, at once, while the
\* next fetch is under way.
Ingest ==
  /\ ~crashed
  /\ ppc = "fromQuery"
  /\ ~arrived
  /\ \E A \in SUBSET (Ticks \X Shapes) :
       /\ A # {}
       /\ Cardinality(backend) + Cardinality(A) <= MaxEntries
       /\ Served(Arrivals(A, nextId), sFilter)
       /\ backend' = backend \cup Arrivals(A, nextId)
       /\ nextId' = nextId + Cardinality(A)
  /\ arrived' = TRUE
  /\ lateIngest' = (lateIngest \/ queries > 0)
  /\ UNCHANGED <<cfgVars, otherVars, chanVars, mainVars, prodVars, batches,
                 closeVars, ghostVars>>

\* the consumer takes the next record off the channel
Receive ==
  /\ ~crashed
  /\ strChan # <<>>
  /\ received' = Append(received, Head(strChan))
  /\ strChan' = Tail(strChan)
  /\ UNCHANGED <<cfgVars, otherVars, closed, mainVars, prodVars, envVars,
                 closeVars, outVars, repVars, cntVars, faultVars, exitVars>>

\* Close, first statement: s.stop = true (the consumer closes a reader it
\* has started)
CloseStop ==
  /\ ~crashed
  /\ cpc = "open"
  /\ mpc = "returned"
  /\ stop' = TRUE
  /\ cpc' = "stopping"
  /\ UNCHANGED <<cfgVars, otherVars, chanVars, mainVars, prodVars, envVars,
                 ghostVars>>

\* Close, second statement: close(s.strChan)
CloseChan ==
  /\ ~crashed
  /\ cpc = "stopping"
  /\ closed' = TRUE
  /\ cpc' = "closed"
  /\ UNCHANGED <<cfgVars, otherVars, strChan, stop, mainVars, prodVars,
                 envVars, ghostVars>>

\* ---- StreamInto, the caller's side -------------------------------------

\* gcp.LoggingClient fails: err is set and returned, no goroutine is started
StreamIntoSetupFail ==
  /\ ~crashed
  /\ mpc = "new"
  /\ err' = SetupErr
  /\ result' = SetupErr
  /\ mpc' = "returned"
  /\ UNCHANGED <<cfgVars, otherVars, chanVars, prodVars, envVars, closeVars,
                 ghostVars>>

\* gcp.LoggingClient succeeds and the go statement starts the producer
StreamIntoGo ==
  /\ ~crashed
  /\ mpc = "new"
  /\ mpc' = "go"
  /\ ppc' = "start"
  /\ launched' = launched + 1
  /\ UNCHANGED <<cfgVars, otherVars, chanVars, err, result, locVars, envVars,
                 closeVars, outVars, received, repVars, tailEntered, queries,
                 faultVars, exitVars>>

\* `return nil`: the named result err, which the goroutine's closure also
\* writes, is assigned nil
StreamIntoReturn ==
  /\ ~crashed
  /\ mpc = "go"
  /\ err' = Nil
  /\ mpc' = "defer"
  /\ UNCHANGED <<cfgVars, otherVars, chanVars, result, prodVars, envVars,
                 closeVars, ghostVars>>

\* the deferred function runs (recover() is nil) and the value of the named
\* result is handed to the caller
StreamIntoExit ==
  /\ ~crashed
  /\ mpc = "defer"
  /\ result' = err
  /\ mpc' = "returned"
  /\ UNCHANGED <<cfgVars, otherVars, chanVars, err, prodVars, envVars,
                 closeVars, ghostVars>>

\* ---- the producer goroutine --------------------------------------------

\* a transport failure is noted with the number of records pushed so far
NoteFailure(e) ==
  /\ failures' = Append(failures, e)
  /\ sentAtFailure' = IF failures = <<>> THEN Len(sent) ELSE sentAtFailure
  /\ UNCHANGED callbacks

\* a send that gives up when the channel is full instead of blocking
ChanSend_Drop(rec) ==
  /\ ~closed
  /\ strChan' = IF Len(strChan) < ChanCap THEN Append(strChan, rec)
                ELSE strChan
  /\ sent' = Append(sent, rec)
  /\ UNCHANGED <<closed, produced, received, repVars, cntVars, faultVars,
                 exitVars>>

\* s.strChan <- string(b) on an open channel: the send blocks until the
\* channel has room
ChanSend(rec) ==
  /\ ~closed
  /\ Len(strChan) < ChanCap
  /\ strChan' = Append(strChan, rec)
  /\ sent' = Append(sent, rec)
  /\ UNCHANGED <<closed, produced, received, repVars, cntVars, faultVars,
                 exitVars>>

\* s.strChan <- string(b) on a closed channel: the send panics
ChanSendClosed ==
  /\ closed
  /\ fault' = SendOnClosed
  /\ ppc' = "panic"
  /\ UNCHANGED <<chanVars, outVars, received, repVars, cntVars, crashed,
                 exitVars>>

\* a goroutine body that starts with the historical loop whatever the range
GoStart_AlwaysFrom ==
  /\ ~crashed
  /\ ppc = "start"
  /\ ppc' = "fromLoop"
  /\ lastTime' = IF isTail THEN RFC3339(0, UTC) ELSE freshness
  /\ lastFilter' = <<>>
  /\ UNCHANGED <<cfgVars, otherVars, chanVars, mainVars, it, chunk, rv,
                 envVars, closeVars, outVars, received, repVars, cntVars,
                 faultVars, exitVars>>

\* the goroutine body: if s.isTail { streamTail } else { streamFrom }
GoStart ==
  /\ ~crashed
  /\ ppc = "start"
  /\ IF isTail
       THEN /\ ppc' = "tailOpen"
            /\ tailEntered' = tailEntered + 1
            /\ UNCHANGED <<lastTime, lastFilter>>
       ELSE /\ ppc' = "fromLoop"
            /\ lastTime' = freshness
            /\ lastFilter' = <<>>
            /\ UNCHANGED tailEntered
  /\ UNCHANGED <<cfgVars, otherVars, chanVars, mainVars, it, chunk, rv,
                 envVars, closeVars, outVars, received, repVars, queries,
                 launched, faultVars, exitVars>>

\* streamFrom, loop head: the stop flag is set, return nil
FromLoopStop ==
  /\ ~crashed
  /\ ppc = "fromLoop"
  /\ stop
  /\ rv' = Nil
  /\ fromExit' = "stop"
  /\ ppc' = "fromStore"
  /\ UNCHANGED <<cfgVars, otherVars, chanVars, mainVars, lastTime,
                 lastFilter, it, chunk, envVars, closeVars, outVars,
                 received, repVars, cntVars, faultVars, tailExit>>

\* streamFrom, loop head: filter == lastFilter, return nil
FromLoopRepeat ==
  /\ ~crashed
  /\ ppc = "fromLoop"
  /\ ~stop
  /\ Exhausted(TimestampFilter(lastTime), lastFilter)
  /\ rv' = Nil
  /\ fromExit' = "repeat"
  /\ ppc' = "fromStore"
  /\ UNCHANGED <<cfgVars, otherVars, chanVars, mainVars, lastTime,
                 lastFilter, it, chunk, envVars, closeVars, outVars,
                 received, repVars, cntVars, faultVars, tailExit>>

\* the Filter of the request: the timestamp part, and the user's predicate
\* when there is one
RequestFilter(t, pred) ==
  IF pred # NoPredicate THEN FullFilter(t, pred) ELSE TimestampFilter(t)

\* a loop head that remembers the whole Filter of the request, the user's
\* predicate included, and compares the timestamp part with it
FromLoopFilter_Full ==
  /\ ~crashed
  /\ ppc = "fromLoop"
  /\ ~stop
  /\ ~Exhausted(TimestampFilter(lastTime), lastFilter)
  /\ lastFilter' = RequestFilter(lastTime, sFilter)
  /\ ppc' = "fromQuery"
  /\ UNCHANGED <<cfgVars, otherVars, chanVars, mainVars, lastTime, it, chunk,
                 rv, envVars, closeVars, ghostVars>>

\* streamFrom, loop head: the stop flag is not set and the filter is not the
\* previous one; the filter is remembered and the query is started
FromLoopFilter ==
  /\ ~crashed
  /\ ppc = "fromLoop"
  /\ ~stop
  /\ ~Exhausted(TimestampFilter(lastTime), lastFilter)
  /\ lastFilter' = TimestampFilter(lastTime)
  /\ ppc' = "fromQuery"
  /\ UNCHANGED <<cfgVars, otherVars, chanVars, mainVars, lastTime, it, chunk,
                 rv, envVars, closeVars, ghostVars>>

\* the iterator is created and its first it.Next() returns with the page
\* (the model's backend holds fewer entries than one page of 100); the stop
\* flag is not read again
FromFetch ==
  /\ ~crashed
  /\ ppc = "fromQuery"
  /\ it' = ListLogEntries(backend, RequestFilter(lastTime, sFilter))
  /\ produced' = produced \o Yielded(it', "historical")
  /\ queries' = queries + 1
  /\ arrived' = FALSE
  /\ ppc' = "fromNext"
  /\ UNCHANGED <<cfgVars, otherVars, chanVars, mainVars, lastTime,
                 lastFilter, chunk, rv, backend, nextId, batches, lateIngest,
                 closeVars, sent, received, repVars, tailEntered, launched,
                 faultVars, exitVars>>

\* the same, the page fetch fails: streamFrom returns the error
FromFetchErr ==
  /\ ~crashed
  /\ ppc = "fromQuery"
  /\ rv' = QueryErr
  /\ NoteFailure(QueryErr)
  /\ fromExit' = "error"
  /\ queries' = queries + 1
  /\ arrived' = FALSE
  /\ ppc' = "fromStore"
  /\ UNCHANGED <<cfgVars, otherVars, chanVars, mainVars, lastTime,
                 lastFilter, it, chunk, backend, nextId, batches, lateIngest,
                 closeVars, outVars, received, tailEntered, launched,
                 faultVars, tailExit>>

\* it.Next() returns iterator.Done: break, back to the loop head
FromNextDone ==
  /\ ~crashed
  /\ ppc = "fromNext"
  /\ it = <<>>
  /\ ppc' = "fromLoop"
  /\ UNCHANGED <<cfgVars, otherVars, chanVars, mainVars, locVars, envVars,
                 closeVars, ghostVars>>

\* it.Next() returns an entry: b, lastTime = massageEntryLog(resp), and
\* s.strChan <- string(b) goes through
FromSend ==
  /\ ~crashed
  /\ ppc = "fromNext"
  /\ it # <<>>
  /\ LET r == massageEntryLog(Head(it))
     IN /\ ChanSend([id |-> Head(it).id, rec |-> r.b, mode |-> "historical"])
        /\ lastTime' = r.lastTime
  /\ it' = Tail(it)
  /\ UNCHANGED <<cfgVars, otherVars, mainVars, ppc, lastFilter, chunk, rv,
                 envVars, closeVars>>

\* the same, the channel has been closed
FromSendClosed ==
  /\ ~crashed
  /\ ppc = "fromNext"
  /\ it # <<>>
  /\ ChanSendClosed
  /\ lastTime' = massageEntryLog(Head(it)).lastTime
  /\ it' = Tail(it)
  /\ UNCHANGED <<cfgVars, otherVars, mainVars, lastFilter, chunk, rv,
                 envVars, closeVars>>

\* err = s.streamFrom(ctx, c): the returned value is stored in err
FromStore ==
  /\ ~crashed
  /\ ppc = "fromStore"
  /\ err' = rv
  /\ ppc' = "fallback"
  /\ UNCHANGED <<cfgVars, otherVars, chanVars, mpc, result, locVars, envVars,
                 closeVars, ghostVars>>

\* if err == nil { err = s.streamTail(ctx, c) }
Fallback ==
  /\ ~crashed
  /\ ppc = "fallback"
  /\ IF err = Nil
       THEN /\ ppc' = "tailOpen"
            /\ tailEntered' = tailEntered + 1
       ELSE /\ ppc' = "errCheck"
            /\ UNCHANGED tailEntered
  /\ UNCHANGED <<cfgVars, otherVars, chanVars, mainVars, locVars, envVars,
                 closeVars, outVars, received, repVars, queries, launched,
                 faultVars, exitVars>>

\* the batches a tail session can deliver: one to n fresh entries in arrival
\* order (the tail loop drops the time massageEntryLog returns, so live
\* entries carry the latest tick)
TailChunks(pred, id0, n) ==
  { [i \in 1..k |->
       LogEntry(id0 + i - 1, LatestTick, LiveShape(pred, id0 + i - 1))] :
      k \in 1..n }

\* streamTail: c.TailLogEntries(ctx) opens the session
TailOpen ==
  /\ ~crashed
  /\ ppc = "tailOpen"
  /\ ppc' = "tailReq"
  /\ UNCHANGED <<cfgVars, otherVars, chanVars, mainVars, locVars, envVars,
                 closeVars, ghostVars>>

\* streamTail: c.TailLogEntries(ctx) fails
TailOpenFail ==
  /\ ~crashed
  /\ ppc = "tailOpen"
  /\ rv' = TailOpenErr
  /\ NoteFailure(TailOpenErr)
  /\ tailExit' = "error"
  /\ ppc' = "tailStore"
  /\ UNCHANGED <<cfgVars, otherVars, chanVars, mainVars, lastTime,
                 lastFilter, it, chunk, envVars, closeVars, outVars,
                 received, cntVars, faultVars, fromExit>>

\* streamTail: stream.Send(req) with the resource scope and s.filter
TailReq ==
  /\ ~crashed
  /\ ppc = "tailReq"
  /\ ppc' = "tailRecv"
  /\ UNCHANGED <<cfgVars, otherVars, chanVars, mainVars, locVars, envVars,
                 closeVars, ghostVars>>

\* streamTail: stream.Send(req) fails
TailReqFail ==
  /\ ~crashed
  /\ ppc = "tailReq"
  /\ rv' = TailSendErr
  /\ NoteFailure(TailSendErr)
  /\ tailExit' = "error"
  /\ ppc' = "tailStore"
  /\ UNCHANGED <<cfgVars, otherVars, chanVars, mainVars, lastTime,
                 lastFilter, it, chunk, envVars, closeVars, outVars,
                 received, cntVars, faultVars, fromExit>>

\* streamTail: stream.Recv() returns a batch
TailRecv ==
  /\ ~crashed
  /\ ppc = "tailRecv"
  /\ batches < MaxTail
  /\ \E c \in TailChunks(sFilter, nextId,
                          MaxTail - Len(InMode(produced, "tail"))) :
       /\ chunk' = c
       /\ produced' = produced \o Yielded(c, "tail")
       /\ nextId' = nextId + Len(c)
  /\ batches' = batches + 1
  /\ ppc' = "tailRange"
  /\ UNCHANGED <<cfgVars, otherVars, chanVars, mainVars, lastTime,
                 lastFilter, it, rv, backend, arrived, lateIngest, closeVars,
                 sent, received, repVars, cntVars, faultVars, exitVars>>

\* streamTail: stream.Recv() returns io.EOF: break, return nil
TailRecvEOF_AsError ==
  /\ ~crashed
  /\ ppc = "tailRecv"
  /\ rv' = "EOF"
  /\ tailExit' = "eof"
  /\ ppc' = "tailStore"
  /\ UNCHANGED <<cfgVars, otherVars, chanVars, mainVars, lastTime,
                 lastFilter, it, chunk, envVars, closeVars, outVars,
                 received, repVars, cntVars, faultVars, fromExit>>

TailRecvEOF ==
  /\ ~crashed
  /\ ppc = "tailRecv"
  /\ rv' = Nil
  /\ tailExit' = "eof"
  /\ ppc' = "tailStore"
  /\ UNCHANGED <<cfgVars, otherVars, chanVars, mainVars, lastTime,
                 lastFilter, it, chunk, envVars, closeVars, outVars,
                 received, repVars, cntVars, faultVars, fromExit>>

\* streamTail: stream.Recv() fails
TailRecvFail ==
  /\ ~crashed
  /\ ppc = "tailRecv"
  /\ rv' = TailRecvErr
  /\ NoteFailure(TailRecvErr)
  /\ tailExit' = "error"
  /\ ppc' = "tailStore"
  /\ UNCHANGED <<cfgVars, otherVars, chanVars, mainVars, lastTime,
                 lastFilter, it, chunk, envVars, closeVars, outVars,
                 received, cntVars, faultVars, fromExit>>

\* streamTail: the range over chunk.Entries is over, back to Recv
TailRangeDone ==
  /\ ~crashed
  /\ ppc = "tailRange"
  /\ chunk = <<>>
  /\ ppc' = "tailRecv"
  /\ UNCHANGED <<cfgVars, otherVars, chanVars, mainVars, locVars, envVars,
                 closeVars, ghostVars>>

\* the entry the range over chunk.Entries visits next
NextOfRange_Last(c) == c[Len(c)]
NextOfRange(c) == Head(c)

RestOfRange(c) ==
  IF NextOfRange(c) = Head(c) THEN Tail(c) ELSE SubSeq(c, 1, Len(c) - 1)

\* streamTail: next entry of the batch: b, _ = massageEntryLog(resp), and
\* s.strChan <- string(b) goes through
TailSend ==
  /\ ~crashed
  /\ ppc = "tailRange"
  /\ chunk # <<>>
  /\ LET resp == NextOfRange(chunk)
     IN ChanSend([id |-> resp.id, rec |-> massageEntryLog(resp).b,
                  mode |-> "tail"])
  /\ chunk' = RestOfRange(chunk)
  /\ UNCHANGED <<cfgVars, otherVars, mainVars, ppc, lastTime, lastFilter, it,
                 rv, envVars, closeVars>>

\* the same, the channel has been closed
TailSendClosed ==
  /\ ~crashed
  /\ ppc = "tailRange"
  /\ chunk # <<>>
  /\ ChanSendClosed
  /\ chunk' = RestOfRange(chunk)
  /\ UNCHANGED <<cfgVars, otherVars, mainVars, lastTime, lastFilter, it, rv,
                 envVars, closeVars>>

\* err = s.streamTail(ctx, c): the returned value is stored in err
TailStore ==
  /\ ~crashed
  /\ ppc = "tailStore"
  /\ err' = rv
  /\ ppc' = "errCheck"
  /\ UNCHANGED <<cfgVars, otherVars, chanVars, mpc, result, locVars, envVars,
                 closeVars, ghostVars>>

\* if err != nil { if s.onError != nil { ... } }
ErrCheck ==
  /\ ~crashed
  /\ ppc = "errCheck"
  /\ ppc' = IF err # Nil /\ onError THEN "onError" ELSE "done"
  /\ UNCHANGED <<cfgVars, otherVars, chanVars, mainVars, locVars, envVars,
                 closeVars, ghostVars>>

\* s.onError(err): err is read again for the call
OnError ==
  /\ ~crashed
  /\ ppc = "onError"
  /\ callbacks' = Append(callbacks, err)
  /\ ppc' = "done"
  /\ UNCHANGED <<cfgVars, otherVars, chanVars, mainVars, locVars, envVars,
                 closeVars, outVars, received, failures, sentAtFailure,
                 cntVars, faultVars, exitVars>>

\* a panic in the goroutine: its only deferred call is c.Close(), the
\* recover() of StreamInto is not on this stack, the process dies
GoPanic ==
  /\ ~crashed
  /\ ppc = "panic"
  /\ crashed' = TRUE
  /\ ppc' = "dead"
  /\ UNCHANGED <<cfgVars, otherVars, chanVars, mainVars, locVars, envVars,
                 closeVars, outVars, received, repVars, cntVars, fault,
                 exitVars>>

Next ==
  \/ Ingest \/ Receive \/ CloseStop \/ CloseChan
  \/ StreamIntoSetupFail \/ StreamIntoGo \/ StreamIntoReturn \/ StreamIntoExit
  \/ GoStart
  \/ FromLoopStop \/ FromLoopRepeat
  \/ FromLoopFilter \/ FromFetch \/ FromFetchErr \/ FromNextDone
  \/ FromSend \/ FromSendClosed \/ FromStore \/ Fallback
  \/ TailOpen \/ TailOpenFail \/ TailReq \/ TailReqFail
  \/ TailRecv \/ TailRecvEOF \/ TailRecvFail
  \/ TailRangeDone \/ TailSend \/ TailSendClosed
  \/ TailStore \/ ErrCheck \/ OnError \/ GoPanic

Spec == Init /\ [][Next]_vars

TypeOK ==
  /\ ppc \in {"idle", "start", "fromLoop", "fromQuery", "fromNext", "fromStore",
              "fallback", "tailOpen", "tailReq", "tailRecv", "tailRange",
              "tailStore", "errCheck", "onError", "done", "panic", "dead"}
  /\ mpc \in {"new", "go", "defer", "returned"}
  /\ Len(strChan) <= ChanCap

\* ---- massageEntryLog on its own -----------------------------------------

\* the payload oneof of a raw entry: a structured payload (one of them with a
\* number JSON cannot express), a text payload (one of them empty), a
\* protobuf payload, none
Payloads ==
  { [kind |-> "json", val |-> "obj"], [kind |-> "json", val |-> "nan"],
    [kind |-> "text", val |-> "msg"], [kind |-> "text", val |-> ""],
    [kind |-> "proto", val |-> "any"], [kind |-> "none", val |-> ""] }

\* raw entries with every field present or missing
RawEntries ==
  { LogEntry(1, ts, [sev |-> sev, payload |-> pl]) :
      ts \in Ticks \cup {0},
      sev \in {"DEFAULT", "INFO", "ERROR"},
      pl \in Payloads }

NormInit ==
  /\ ReaderIdle
  /\ ParseIdle
  /\ AuthIdle
  /\ FileIdle
  /\ npc = "call"
  /\ raw \in RawEntries
  /\ norm = <<>>

\* massageEntryLog(raw) returns
MassageReturn ==
  /\ npc = "call"
  /\ massageEntryLog(raw).fault = Nil
  /\ norm' = massageEntryLog(raw)
  /\ npc' = "returned"
  /\ UNCHANGED <<raw, parseVars, authVars, fileVars, cfgVars, chanVars,
                 mainVars, prodVars, envVars, closeVars, ghostVars>>

\* massageEntryLog(raw) panics
MassagePanic ==
  /\ npc = "call"
  /\ massageEntryLog(raw).fault # Nil
  /\ norm' = massageEntryLog(raw)
  /\ npc' = "panic"
  /\ UNCHANGED <<raw, parseVars, authVars, fileVars, cfgVars, chanVars,
                 mainVars, prodVars, envVars, closeVars, ghostVars>>

NormNext == MassageReturn \/ MassagePanic

NormSpec == NormInit /\ [][NormNext]_vars

\* ---- ParseFrom -----------------------------------------------------------

\* a string is the sequence of its characters
DigitChars == <<"0", "1", "2", "3", "4", "5", "6", "7", "8", "9">>
IsDigit(c) == \E i \in 1..Len(DigitChars) : DigitChars[i] = c
DigitVal(c) == (CHOOSE i \in 1..Len(DigitChars) : DigitChars[i] = c) - 1

\* strings.TrimSpace removes the leading and trailing white space of
\* unicode.IsSpace: the ASCII ones, NEL, the no-break space and the Unicode
\* space separators (a code point without an escape is written U+xxxx)
WhiteSpace ==
  {" ", "\t", "\n", "\f", "\r", "U+000B", "U+0085", "U+00A0", "U+1680",
   "U+2000", "U+2001", "U+2002", "U+2003", "U+2004", "U+2005", "U+2006",
   "U+2007", "U+2008", "U+2009", "U+200A", "U+2028", "U+2029", "U+202F",
   "U+205F", "U+3000"}

RECURSIVE TrimLeft(_)
TrimLeft(s) ==
  IF s # <<>> /\ Head(s) \in WhiteSpace THEN TrimLeft(Tail(s)) ELSE s

RECURSIVE TrimRight(_)
TrimRight(s) ==
  IF s # <<>> /\ s[Len(s)] \in WhiteSpace
    THEN TrimRight(SubSeq(s, 1, Len(s) - 1))
  ELSE s

TrimSpace(s) == TrimRight(TrimLeft(s))

\* the literal "tail"
TailLiteral == <<"t", "a", "i", "l">>

\* regF: ^\d+(s|m|d|h)$
UnitChars == {"s", "m", "d", "h"}

MatchRegF(s) ==
  \E n \in 1..Len(s) :
    /\ \A i \in 1..n : IsDigit(s[i])
    /\ Len(s) = n + 1
    /\ s[n + 1] \in UnitChars

\* regD: ^\d{4}(-\d{2}){2}T(\d{2}:){2}\d{2}$, position by position ("#" is
\* a digit)
RegDShape ==
  <<"#", "#", "#", "#", "-", "#", "#", "-", "#", "#", "T",
    "#", "#", ":", "#", "#", ":", "#", "#">>

MatchRegD(s) ==
  /\ Len(s) = Len(RegDShape)
  /\ \A i \in 1..Len(s) :
       IF RegDShape[i] = "#" THEN IsDigit(s[i]) ELSE s[i] = RegDShape[i]

\* int64: a word of Limbs limbs, each below Base, least significant first;
\* a natural number of any size is such a sequence of any length
Base == 65536
Limbs == 4

\* x * k + c on naturals (k and c small)
RECURSIVE MulAdd(_, _, _)
MulAdd(x, k, c) ==
  IF x = <<>>
    THEN IF c = 0 THEN <<>> ELSE <<c % Base>> \o MulAdd(<<>>, k, c \div Base)
    ELSE LET v == Head(x) * k + c
         IN <<v % Base>> \o MulAdd(Tail(x), k, v \div Base)

\* a natural without its leading zero limbs
RECURSIVE Trim(_)
Trim(x) ==
  IF x # <<>> /\ x[Len(x)] = 0 THEN Trim(SubSeq(x, 1, Len(x) - 1)) ELSE x

\* the natural a string of decimal digits denotes
RECURSIVE NatOf(_, _)
NatOf(ds, acc) ==
  IF ds = <<>> THEN acc
  ELSE NatOf(Tail(ds), MulAdd(acc, 10, DigitVal(Head(ds))))

\* math.MaxInt64, and whether a natural is at most that
MaxInt64 ==
  [i \in 1..Limbs |-> IF i = Limbs THEN (Base \div 2) - 1 ELSE Base - 1]
FitsInt64(n) ==
  Len(Trim(n)) < Limbs \/ (Len(Trim(n)) = Limbs /\ n[Limbs] < Base \div 2)

\* the low 64 bits of a natural
Wrap64(n) == [i \in 1..Limbs |-> IF i <= Len(n) THEN n[i] ELSE 0]

\* strconv.ParseInt(digits, 10, 64) with the error dropped: on a range error
\* the value returned is the largest int64
ParseInt(ds) ==
  LET n == NatOf(ds, <<>>)
  IN IF FitsInt64(n) THEN Wrap64(n) ELSE MaxInt64

\* int64 multiplication by a small factor, negation, sign: two's complement,
\* overflow wraps
Mul64(w, k) == Wrap64(MulAdd(w, k, 0))
Neg64(w) == Wrap64(MulAdd([i \in 1..Limbs |-> Base - 1 - w[i]], 1, 1))
Negative(w) == w[Limbs] >= Base \div 2

RECURSIVE Times(_, _)
Times(w, fs) == IF fs = <<>> THEN w ELSE Times(Mul64(w, Head(fs)), Tail(fs))

\* the factors of time.Second, time.Minute, time.Hour (nanoseconds) and of
\* the 24 that follows time.Hour * numb for the unit d
UnitFactors(unit) ==
  <<1000, 1000, 1000>> \o
    (CASE unit = "s" -> <<>>
       [] unit = "m" -> <<60>>
       [] unit = "h" -> <<3600>>
       [] unit = "d" -> <<3600, 24>>)

\* the switch of ParseFrom: duration = unit * time.Duration(numb)
DurationOf(numb, unit) == Times(numb, UnitFactors(unit))

\* an int64 number of nanoseconds as sign and magnitude
Signed(w) ==
  [sign |-> IF Negative(w) THEN -1 ELSE IF Trim(w) = <<>> THEN 0 ELSE 1,
   mag |-> IF Negative(w) THEN Trim(Neg64(w)) ELSE Trim(w)]

\* time.Now().Add(-1 * duration): the resume point as its offset from now
ResumeOffset(s) ==
  LET numb == ParseInt(SubSeq(s, 1, Len(s) - 1))
  IN Signed(Neg64(DurationOf(numb, s[Len(s)])))

\* the number n consecutive digits of s denote, from position i
RECURSIVE Num(_, _, _)
Num(s, i, n) ==
  IF n = 0 THEN 0 ELSE 10 * Num(s, i, n - 1) + DigitVal(s[i + n - 1])

\* the fields time.Parse reads under the layout 2006-01-02T15:04:05
DateFields(s) ==
  [year |-> Num(s, 1, 4), month |-> Num(s, 6, 2), day |-> Num(s, 9, 2),
   hour |-> Num(s, 12, 2), min |-> Num(s, 15, 2), sec |-> Num(s, 18, 2)]

IsLeap(y) == y % 4 = 0 /\ (y % 100 # 0 \/ y % 400 = 0)

DaysIn(y, m) ==
  IF m = 2 THEN (IF IsLeap(y) THEN 29 ELSE 28)
  ELSE IF m \in {4, 6, 9, 11} THEN 30 ELSE 31

\* time.Parse returns no error: every field is in range
ValidDate_AnyDay(f) ==
  /\ f.month \in 1..12
  /\ f.day \in 1..31
  /\ f.hour <= 23 /\ f.min <= 59 /\ f.sec <= 59

ValidDate(f) ==
  /\ f.month \in 1..12
  /\ f.day \in 1..DaysIn(f.year, f.month)
  /\ f.hour <= 23 /\ f.min <= 59 /\ f.sec <= 59

\* n with w decimal digits
RECURSIVE Dec(_, _)
Dec(n, w) ==
  IF w = 0 THEN <<>> ELSE Dec(n \div 10, w - 1) \o <<DigitChars[(n % 10) + 1]>>

\* t.Format(time.RFC3339) of a time parsed without zone, which is UTC
FormatUTC(f) ==
  Dec(f.year, 4) \o <<"-">> \o Dec(f.month, 2) \o <<"-">> \o Dec(f.day, 2)
    \o <<"T">> \o Dec(f.hour, 2) \o <<":">> \o Dec(f.min, 2) \o <<":">>
    \o Dec(f.sec, 2) \o <<"Z">>

\* what ParseFrom hands back: the literal tail, a resume point relative to
\* now, a formatted instant, or nothing because the process exited
Outcome(kind, text, offset) ==
  [kind |-> kind, text |-> text, offset |-> offset]
NoOffset == [sign |-> 0, mag |-> <<>>]

\* ---- the arguments ParseFrom is called with

MaxDigits == 6

\* the number of decimal digits of math.MaxInt64
Int64Digits == 19

DigitStrings ==
  UNION { [1..k -> {"0", "1", "9"}] : k \in 0..MaxDigits }
    \cup { [i \in 1..k |-> "9"] : k \in {Int64Digits, Int64Digits + 1} }

RelativeStrings ==
  { ds \o u : ds \in DigitStrings,
              u \in {<<"s">>, <<"m">>, <<"h">>, <<"d">>, <<"x">>, <<>>} }

AbsoluteStrings ==
  { y \o <<"-">> \o mo \o <<"-">> \o d \o sep \o h \o <<":">> \o mi
      \o <<":">> \o sec :
      y \in {<<"2", "0", "2", "4">>, <<"1", "9", "0", "0">>},
      mo \in {<<"0", "1">>, <<"0", "2">>, <<"0", "4">>, <<"1", "3">>},
      d \in {<<"0", "0">>, <<"0", "2">>, <<"2", "9">>, <<"3", "1">>},
      sep \in {<<"T">>, <<" ">>},
      h \in {<<"0", "3">>, <<"2", "4">>},
      mi \in {<<"0", "4">>, <<"6", "0">>},
      sec \in {<<"0", "5">>, <<"6", "0">>, <<"5">>} }

OtherStrings ==
  { <<>>, TailLiteral, <<"T", "a", "i", "l">>, TailLiteral \o <<"x">>,
    <<"g", "a", "r", "b", "a", "g", "e">>, <<"-", "5", "m">>,
    <<"5", " ", "m">>, <<"5", "m", "5", "m">> }

\* the white space a time range is given with: blanks, a tab, a line end,
\* a no-break space; U+200B (zero width space) is not white space
Paddings ==
  { <<<<" ">>, <<" ">>>>, <<<<>>, <<" ">>>>, <<<<"\t">>, <<>>>>,
    <<<<>>, <<"\n">>>>, <<<<" ", "\t">>, <<"\r", "\n">>>>,
    <<<<"U+00A0">>, <<"U+2003">>>>, <<<<"U+200B">>, <<>>>> }

Padded(S) == { pad[1] \o x \o pad[2] : x \in S, pad \in Paddings }

TimeRanges ==
  RelativeStrings \cup AbsoluteStrings \cup OtherStrings
    \cup Padded(OtherStrings)
    \cup Padded({<<"9", "m">>, <<"2", "0", "2", "4", "-", "0", "1", "-", "0",
                   "2", "T", "0", "3", ":", "0", "4", ":", "0", "5">>})

ParseInit ==
  /\ ReaderIdle
  /\ NormIdle
  /\ AuthIdle
  /\ FileIdle
  /\ fpc = "call"
  /\ fromStr \in TimeRanges
  /\ parsed = <<>>

\* if str == "tail" { return "tail" }
ParseFromTail ==
  /\ fpc = "call"
  /\ TrimSpace(fromStr) = TailLiteral
  /\ parsed' = Outcome("tail", TailLiteral, NoOffset)
  /\ fpc' = "returned"
  /\ UNCHANGED <<fromStr, normVars, authVars, fileVars, cfgVars, chanVars,
                 mainVars, prodVars, envVars, closeVars, ghostVars>>

\* regF matches: return time.Now().Add(-1 * duration).Format(time.RFC3339)
ParseFromRelative ==
  /\ fpc = "call"
  /\ TrimSpace(fromStr) # TailLiteral
  /\ MatchRegF(TrimSpace(fromStr))
  /\ parsed' = Outcome("resume", <<>>, ResumeOffset(TrimSpace(fromStr)))
  /\ fpc' = "returned"
  /\ UNCHANGED <<fromStr, normVars, authVars, fileVars, cfgVars, chanVars,
                 mainVars, prodVars, envVars, closeVars, ghostVars>>

\* regD matches and time.Parse succeeds: return t.Format(time.RFC3339)
ParseFromAbsolute ==
  /\ fpc = "call"
  /\ TrimSpace(fromStr) # TailLiteral
  /\ ~MatchRegF(TrimSpace(fromStr))
  /\ MatchRegD(TrimSpace(fromStr))
  /\ ValidDate(DateFields(TrimSpace(fromStr)))
  /\ parsed' = Outcome("instant", FormatUTC(DateFields(TrimSpace(fromStr))),
                       NoOffset)
  /\ fpc' = "returned"
  /\ UNCHANGED <<fromStr, normVars, authVars, fileVars, cfgVars, chanVars,
                 mainVars, prodVars, envVars, closeVars, ghostVars>>

\* regD matches and time.Parse fails: util.Log().Fatal ends the process
ParseFromBadDate ==
  /\ fpc = "call"
  /\ TrimSpace(fromStr) # TailLiteral
  /\ ~MatchRegF(TrimSpace(fromStr))
  /\ MatchRegD(TrimSpace(fromStr))
  /\ ~ValidDate(DateFields(TrimSpace(fromStr)))
  /\ parsed' = Outcome("fatal", <<>>, NoOffset)
  /\ fpc' = "exited"
  /\ UNCHANGED <<fromStr, normVars, authVars, fileVars, cfgVars, chanVars,
                 mainVars, prodVars, envVars, closeVars, ghostVars>>

\* neither pattern matches: util.Log().Fatal ends the process
ParseFromNoMatch ==
  /\ fpc = "call"
  /\ TrimSpace(fromStr) # TailLiteral
  /\ ~MatchRegF(TrimSpace(fromStr))
  /\ ~MatchRegD(TrimSpace(fromStr))
  /\ parsed' = Outcome("fatal", <<>>, NoOffset)
  /\ fpc' = "exited"
  /\ UNCHANGED <<fromStr, normVars, authVars, fileVars, cfgVars, chanVars,
                 mainVars, prodVars, envVars, closeVars, ghostVars>>

ParseNext ==
  \/ ParseFromTail \/ ParseFromRelative \/ ParseFromAbsolute
  \/ ParseFromBadDate \/ ParseFromNoMatch

ParseSpec == ParseInit /\ [][ParseNext]_vars

\* ---- CheckAuth -----------------------------------------------------------

\* the variables CheckAuth leaves alone
authFrame ==
  <<normVars, parseVars, fileVars, cfgVars, chanVars, mainVars, prodVars,
    envVars, closeVars, ghostVars>>

\* what the environment answers
authEnv == <<probe, isGCloud, cmdOk, screenOk>>

\* the access probe: gcp.LoggingClient fails, or the first it.Next() of
\* ListLogs fails, or both succeed
Probes == {"ok", "client error", "list error"}

AuthInit ==
  /\ ReaderIdle
  /\ NormIdle
  /\ ParseIdle
  /\ FileIdle
  /\ apc = "call"
  /\ gpc = "idle"
  /\ screen = "none"
  /\ exited = FALSE
  /\ probe \in Probes
  /\ isGCloud \in BOOLEAN
  /\ cmdOk \in BOOLEAN
  /\ screenOk \in BOOLEAN

\* the probe succeeds: err == nil, return nil
CheckAuthProbeOk ==
  /\ ~exited
  /\ apc = "call"
  /\ probe = "ok"
  /\ apc' = "returned"
  /\ UNCHANGED <<gpc, screen, exited, authEnv, authFrame>>

\* the probe fails: the application and the modal are created and the go
\* statement starts the acquisition
CheckAuthProbeFail ==
  /\ ~exited
  /\ apc = "call"
  /\ probe # "ok"
  /\ apc' = "run"
  /\ gpc' = "acquire"
  /\ UNCHANGED <<screen, exited, authEnv, authFrame>>

\* app.SetRoot(modal, false).EnableMouse(true).Run(): Run creates the screen,
\* which shows the modal, and enters the event loop
AppRun ==
  /\ ~exited
  /\ apc = "run"
  /\ screenOk
  /\ screen' = "shown"
  /\ apc' = "loop"
  /\ UNCHANGED <<gpc, exited, authEnv, authFrame>>

\* Run cannot create the screen and returns an error: panic(err)
AppRunFail ==
  /\ ~exited
  /\ apc = "run"
  /\ ~screenOk
  /\ apc' = "panic"
  /\ exited' = TRUE
  /\ UNCHANGED <<gpc, screen, authEnv, authFrame>>

\* the event loop ends once Stop has closed the screen: Run returns nil and
\* CheckAuth returns nil
AppRunReturn ==
  /\ ~exited
  /\ apc = "loop"
  /\ screen = "closed"
  /\ apc' = "returned"
  /\ UNCHANGED <<gpc, screen, exited, authEnv, authFrame>>

\* the goroutine: !gcp.IsGCloud, gcp.OAuth() runs and returns
AcquireOAuth ==
  /\ ~exited
  /\ gpc = "acquire"
  /\ ~isGCloud
  /\ gpc' = "acquired"
  /\ UNCHANGED <<apc, screen, exited, authEnv, authFrame>>

\* the goroutine: gcloud auth application-default login runs and succeeds
AcquireGCloud ==
  /\ ~exited
  /\ gpc = "acquire"
  /\ isGCloud
  /\ cmdOk
  /\ gpc' = "acquired"
  /\ UNCHANGED <<apc, screen, exited, authEnv, authFrame>>

\* the goroutine: the gcloud command fails, util.Log().Fatal(err) ends the
\* process (the deferred app.Stop() does not run)
AcquireGCloudFail ==
  /\ ~exited
  /\ gpc = "acquire"
  /\ isGCloud
  /\ ~cmdOk
  /\ gpc' = "fatal"
  /\ exited' = TRUE
  /\ UNCHANGED <<apc, screen, authEnv, authFrame>>

\* the goroutine returns and its deferred app.Stop() runs: Stop closes the
\* screen of a running application, and does nothing when the application
\* has no screen yet (Run has not created it)
AppStop ==
  /\ ~exited
  /\ gpc = "acquired"
  /\ screen' = IF screen = "shown" THEN "closed" ELSE screen
  /\ gpc' = "done"
  /\ UNCHANGED <<apc, exited, authEnv, authFrame>>

AuthNext ==
  \/ CheckAuthProbeOk \/ CheckAuthProbeFail
  \/ AppRun \/ AppRunFail \/ AppRunReturn
  \/ AcquireOAuth \/ AcquireGCloud \/ AcquireGCloudFail \/ AppStop

AuthSpec == AuthInit /\ [][AuthNext]_vars

\* ---- the File Reader ------------------------------------------------------
\* reader.MakeReader(fileName, nil) with a file name makes the File Reader,
\* whose code is not among the sources: it is modelled from section 4.4 of
\* the specification.

MaxLines == 3
MaxRotations == 2

\* the identities a file at the watched path can have
FileIds == 1..(MaxRotations + 1)

\* the variables the File Reader and its file leave alone
fileFrame ==
  <<normVars, parseVars, authVars, cfgVars, chanVars, mainVars, prodVars,
    envVars, closeVars, ghostVars>>

\* MakeReader(fileName, nil): the path holds an empty file, nothing is open
FileInit ==
  /\ ReaderIdle
  /\ NormIdle
  /\ ParseIdle
  /\ AuthIdle
  /\ rpc = "made"
  /\ disk = [f \in FileIds |-> <<>>]
  /\ atPath = 1
  /\ handle = 0
  /\ readPos = 0
  /\ lastSize = 0
  /\ out = <<>>
  /\ nextLine = 1
  /\ rotations = 0
  /\ pending = FALSE

\* an external process appends a line to the file at the path
FileAppend ==
  /\ nextLine <= MaxLines
  /\ disk' = [disk EXCEPT ![atPath] = Append(@, nextLine)]
  /\ nextLine' = nextLine + 1
  /\ UNCHANGED <<rpc, atPath, handle, readPos, lastSize, out, rotations,
                 pending, fileFrame>>

\* an external process truncates the file at the path (it rewrites it by
\* appending afterwards)
FileTruncate ==
  /\ rotations < MaxRotations
  /\ disk[atPath] # <<>>
  /\ disk' = [disk EXCEPT ![atPath] = <<>>]
  /\ rotations' = rotations + 1
  /\ pending' = (rpc = "tailing")
  /\ UNCHANGED <<rpc, atPath, handle, readPos, lastSize, out, nextLine,
                 fileFrame>>

\* an external process puts a different, empty file at the path; the old
\* file lives on under the reader's open handle
FileReplace ==
  /\ rotations < MaxRotations
  /\ atPath' = atPath + 1
  /\ rotations' = rotations + 1
  /\ pending' = (rpc = "tailing")
  /\ UNCHANGED <<rpc, disk, handle, readPos, lastSize, out, nextLine,
                 fileFrame>>

\* StreamInto: the background task opens the path
FileOpen ==
  /\ rpc = "made"
  /\ handle' = atPath
  /\ readPos' = 0
  /\ lastSize' = 0
  /\ rpc' = "tailing"
  /\ UNCHANGED <<disk, atPath, out, nextLine, rotations, pending, fileFrame>>

\* the re-validation of a poll tick: the path refers to a different file
\* than the open handle, or the open file is shorter than at the last read
Rotated ==
  \/ atPath # handle
  \/ Len(disk[handle]) < lastSize

\* where reading resumes in the reopened file: at its beginning
ReopenOffset_Keep(old) == old
ReopenOffset(old) == 0

\* a poll tick that finds a rotation: the stale handle is closed and the
\* path is reopened
FileReopen ==
  /\ rpc = "tailing"
  /\ Rotated
  /\ handle' = atPath
  /\ readPos' = ReopenOffset(readPos)
  /\ lastSize' = 0
  /\ pending' = FALSE
  /\ UNCHANGED <<rpc, disk, atPath, out, nextLine, rotations, fileFrame>>

\* a poll tick that finds no rotation and new lines: they are delivered, in
\* the order of the file, on the output stream
FileRead ==
  /\ rpc = "tailing"
  /\ ~Rotated
  /\ readPos < Len(disk[handle])
  /\ out' = out \o SubSeq(disk[handle], readPos + 1, Len(disk[handle]))
  /\ readPos' = Len(disk[handle])
  /\ lastSize' = Len(disk[handle])
  /\ UNCHANGED <<rpc, disk, atPath, handle, nextLine, rotations, pending,
                 fileFrame>>

FileNext ==
  \/ FileAppend \/ FileTruncate \/ FileReplace
  \/ FileOpen \/ FileReopen \/ FileRead

FileSpec == FileInit /\ [][FileNext]_vars

\* ---- the reader without Close and without transport failures -----------

ProducerStep ==
  \/ GoStart
  \/ FromLoopRepeat \/ FromLoopFilter \/ FromFetch \/ FromNextDone
  \/ FromSend \/ FromStore \/ Fallback
  \/ TailOpen \/ TailReq \/ TailRecv \/ TailRecvEOF
  \/ TailRangeDone \/ TailSend \/ TailStore \/ ErrCheck

NextHist ==
  \/ Ingest \/ Receive
  \/ StreamIntoGo \/ StreamIntoReturn \/ StreamIntoExit
  \/ GoStart
  \/ FromLoopRepeat \/ FromLoopFilter \/ FromFetch \/ FromNextDone
  \/ FromSend \/ FromStore \/ Fallback
  \/ TailOpen \/ TailReq \/ TailRecv \/ TailRecvEOF
  \/ TailRangeDone \/ TailSend \/ TailStore \/ ErrCheck

\* no error occurs in this specification: the reader is one with an error
\* callback
HistInit == Init /\ onError

\* the goroutine is scheduled fairly and the consumer keeps draining
HistSpec ==
  /\ HistInit
  /\ [][NextHist]_vars
  /\ WF_vars(ProducerStep)
  /\ WF_vars(Receive)

\* ---- claims --------------------------------------------------------------

HistoricalStates == {"fromLoop", "fromQuery", "fromNext"}

\* the reader has entered Tail mode coming from Historical mode
FellBack == ~isTail /\ tailEntered >= 1

\* C1: a reader whose time range is not "tail", that is never closed and
\* whose source does not fail, enters Tail mode exactly once: never twice,
\* never before the timestamp filter repeated and every entry the historical
\* queries yielded was pushed, and eventually once it has been started.
C1_TailEntry ==
  /\ tailEntered <= 1
  /\ FellBack =>
       /\ fromExit = "repeat"
       /\ lastFilter = TimestampFilter(lastTime)
       /\ it = <<>>
       /\ InMode(produced, "historical") = Pushed(InMode(sent, "historical"))
  /\ (~isTail /\ ppc \in HistoricalStates) => tailEntered = 0

C1_TailExactlyOnce ==
  /\ []C1_TailEntry
  /\ (~isTail /\ ppc = "start") ~> (tailEntered = 1)

C1_Witness ==
  /\ FellBack
  /\ queries >= 2
  /\ Len(InMode(sent, "historical")) >= 2

\* C2: no send on the record channel is attempted after Close has closed it.
C2_NoSendAfterClose == fault # SendOnClosed

\* C3: in Historical mode no source entry is pushed more than once.
C3_NoDuplicate ==
  \A i, j \in DOMAIN sent :
    (i < j /\ sent[i].mode = "historical" /\ sent[j].mode = "historical")
      => sent[i].id # sent[j].id

\* C4: inside the historical loop every assignment to the Watermark
\* (lastTime) leaves it greater than or equal to its previous value.
C4_WatermarkMonotonic ==
  [][(ppc \in HistoricalStates /\ ppc' \in HistoricalStates)
       => ParseRFC3339(lastTime') >= ParseRFC3339(lastTime)]_vars

C4_Witness ==
  /\ ppc \in HistoricalStates
  /\ ParseRFC3339(lastTime) > ParseRFC3339(freshness)
  /\ queries >= 2
  /\ Len(sent) >= 2

\* C5: the records are pushed in the order the source yielded them (query
\* order, then batch arrival order), the channel hands them to the consumer
\* in that order, and every historical record precedes every tail record.
C5_SourceOrder ==
  /\ IsPrefix(Pushed(sent), produced)
  /\ received \o strChan = sent
  /\ \A i, j \in DOMAIN sent :
       (sent[i].mode = "tail" /\ sent[j].mode = "historical") => j < i

C5_Witness ==
  /\ Len(InMode(sent, "historical")) >= 1
  /\ Len(InMode(sent, "tail")) >= 2
  /\ Len(received) >= 2

\* C6: with a relative time range, no user predicate and a backend that
\* holds its n entries (all later than the resume point) before the first
\* query, the records pushed when Tail mode is entered, and until the first
\* tail batch arrives, are exactly the n entries, normalized, oldest first.
C6_EndToEnd ==
  (FellBack /\ fromExit = "repeat" /\ sFilter = NoPredicate /\ ~lateIngest
     /\ batches = 0)
    => /\ Ids(sent) = Ids(SortAsc(backend))
       /\ Records(sent) =
            [i \in 1..Len(sent) |-> massageEntryLog(SortAsc(backend)[i]).b]

\* C7: a transport error is reported exactly once through the error
\* callback, with that error, and no record is pushed after the failure.
C7_ReportedOnce ==
  /\ Len(callbacks) <= 1
  /\ failures # <<>> => Len(sent) = sentAtFailure
  /\ (failures # <<>> /\ onError /\ ppc = "done")
       => callbacks = <<failures[1]>>

\* C8: a runtime fault raised inside the producer is delivered through the
\* error callback and never crashes the host process.
C8_FaultBoundary ==
  /\ ~crashed
  /\ (fault # Nil /\ onError /\ ppc = "done") => callbacks = <<fault>>

\* C9: a clean end-of-stream in Tail mode ends the producer without a call
\* of the error callback, every entry received before it having been pushed.
C9_CleanEOF ==
  (ppc = "done" /\ tailExit = "eof")
    => /\ callbacks = <<>>
       /\ Pushed(sent) = produced

C9_Witness ==
  /\ ppc = "done"
  /\ tailExit = "eof"
  /\ onError
  /\ Len(InMode(sent, "tail")) >= 1

\* C10: StreamInto returns a non-nil error only when the client could not
\* be created, and then no producer was started, nothing is sent and the
\* callback is not invoked; when it returns nil exactly one producer task
\* has been launched.
C10_StreamIntoResult ==
  mpc = "returned"
    => /\ result # Nil
            => (result = SetupErr /\ launched = 0 /\ ppc = "idle"
                  /\ sent = <<>> /\ callbacks = <<>>)
       /\ result = Nil => launched = 1

\* the producer task is not running: it was never started, or it has ended
ProducerOver == ppc \in {"idle", "done", "dead"}

\* the producer read the stop flag as set at the head of the historical loop
ObservedStop == fromExit = "stop"

\* C11: the record channel is closed at most once and only by Close, and at
\* the step that closes it the producer has already observed the stop flag
\* or is over.
C11_CloseAfterProducer ==
  [][(~closed /\ closed')
       => (cpc = "stopping" /\ (ObservedStop \/ ProducerOver))]_vars

\* C12: with the stop flag set, the producer that reaches a loop boundary
\* (the head of the historical loop, the head of the tail receive loop) does
\* not go on to another page fetch or another receive.
C12_StopAtLoopBoundary ==
  [][stop => /\ ~(ppc = "fromLoop" /\ ppc' = "fromQuery")
             /\ ~(ppc \in {"tailReq", "tailRange"} /\ ppc' = "tailRecv")]_vars

\* the producer holds an entry it has not yet been able to send
SendPending ==
  \/ ppc = "fromNext" /\ it # <<>>
  \/ ppc = "tailRange" /\ chunk # <<>>

\* C13: the channel never holds more than ChanCap undelivered records; a
\* record is sent only when the channel has room (a producer facing a full
\* channel waits, keeping its entry); what the consumer has received followed
\* by what the channel holds is exactly what was sent, in order; and with a
\* consumer that keeps receiving every record sent is eventually received.
C13_ChannelState ==
  /\ Len(strChan) <= ChanCap
  /\ received \o strChan = sent
  /\ IsPrefix(Pushed(sent), produced)

C13_Backpressure ==
  /\ []C13_ChannelState
  /\ [][sent' # sent
          => /\ Len(strChan) < ChanCap
             /\ sent' = Append(sent, sent'[Len(sent')])
             /\ strChan' = Append(strChan, sent'[Len(sent')])]_vars
  /\ [][(SendPending /\ Len(strChan) = ChanCap /\ received' = received)
          => (it' = it /\ chunk' = chunk /\ sent' = sent)]_vars
  /\ (strChan # <<>>) ~> (strChan = <<>> /\ received = sent)

C13_Witness ==
  /\ SendPending
  /\ Len(strChan) = ChanCap
  /\ Len(received) >= 1

\* C14: the mode state machine has no return path.  A reader constructed
\* with the time range "tail" never issues a historical query and is never in
\* the historical loop; a reader that has entered Tail mode issues no further
\* historical query, never re-enters the historical loop and pushes no
\* further historical record.
C14_TailOnly ==
  isTail => /\ queries = 0
            /\ ppc \notin HistoricalStates
            /\ InMode(sent, "historical") = <<>>

C14_NoReturnPath ==
  /\ []C14_TailOnly
  /\ [][tailEntered >= 1
          => /\ queries' = queries
             /\ ppc' \notin HistoricalStates
             /\ tailEntered' = tailEntered
             /\ InMode(sent', "historical") = InMode(sent, "historical")]_vars

C14_Witness ==
  /\ ~isTail
  /\ queries >= 2
  /\ tailEntered = 1
  /\ Len(InMode(sent, "historical")) >= 1
  /\ Len(InMode(sent, "tail")) >= 1
  /\ ppc = "tailRecv"

\* the payload keys of a normalized record
PayloadKeys(b) == DOMAIN b \cap {"jsonPayload", "textPayload"}

\* C15: the record massageEntryLog returns has exactly one of the keys
\* jsonPayload and textPayload, whatever the payload kind of the entry:
\* jsonPayload alone for a structured payload, textPayload alone for a text
\* payload, the empty text included.
C15_ExactlyOnePayloadKey ==
  npc = "returned"
    => /\ Cardinality(PayloadKeys(norm.b)) = 1
       /\ raw.payload.kind = "json" => PayloadKeys(norm.b) = {"jsonPayload"}
       /\ raw.payload.kind = "text" => PayloadKeys(norm.b) = {"textPayload"}

\* C16: massageEntryLog returns a record for every raw entry, without a
\* panic; the record has the keys severity and timestamp and neither the
\* key Payload nor the key receive_timestamp.
C16_Total ==
  /\ npc # "panic"
  /\ npc = "returned"
       => /\ {"severity", "timestamp"} \subseteq DOMAIN norm.b
          /\ DOMAIN norm.b \cap {"Payload", "receive_timestamp"} = {}

\* the time range as the claims read it: without the surrounding blanks
TimeRange == TrimSpace(fromStr)

DigitSet == {"0", "1", "2", "3", "4", "5", "6", "7", "8", "9"}

\* <integer><unit> with unit in {s, m, h, d}
RelativeForm(t) ==
  /\ Len(t) >= 2
  /\ t[Len(t)] \in {"s", "m", "h", "d"}
  /\ \A i \in 1..(Len(t) - 1) : t[i] \in DigitSet

\* YYYY-MM-DDTHH:MM:SS
AbsoluteForm(t) ==
  /\ Len(t) = 19
  /\ t[5] = "-" /\ t[8] = "-" /\ t[11] = "T" /\ t[14] = ":" /\ t[17] = ":"
  /\ \A i \in (1..19) \ {5, 8, 11, 14, 17} : t[i] \in DigitSet

\* the calendar: month lengths of a common year, one day more in the
\* February of a leap year
MonthLengths == <<31, 28, 31, 30, 31, 30, 31, 31, 30, 31, 30, 31>>

CalendarDate(t) ==
  LET y == Num(t, 1, 4)
      mo == Num(t, 6, 2)
      d == Num(t, 9, 2)
      leapDay == IF mo = 2 /\ (y % 400 = 0 \/ (y % 4 = 0 /\ y % 100 # 0))
                   THEN 1 ELSE 0
  IN /\ mo >= 1 /\ mo <= 12
     /\ d >= 1 /\ d <= MonthLengths[mo] + leapDay
     /\ Num(t, 12, 2) < 24 /\ Num(t, 15, 2) < 60 /\ Num(t, 18, 2) < 60

\* C17: ParseFrom classifies every time range into exactly one outcome: the
\* literal tail gives the live-only mode; <integer><unit> gives a resume
\* point; YYYY-MM-DDTHH:MM:SS that is a date of the calendar gives that same
\* instant, reformatted; every other string, one of the absolute form that is
\* no date included, ends in the fatal configuration error and gives no
\* resume point.
C17_Classification ==
  fpc # "call"
    => /\ parsed.kind \in {"tail", "resume", "instant", "fatal"}
       /\ parsed.kind = "tail" <=> TimeRange = TailLiteral
       /\ parsed.kind = "resume" <=> RelativeForm(TimeRange)
       /\ parsed.kind = "instant"
            <=> (AbsoluteForm(TimeRange) /\ CalendarDate(TimeRange))
       /\ parsed.kind = "instant" => parsed.text = TimeRange \o <<"Z">>
       /\ parsed.kind = "fatal" <=> fpc = "exited"
       /\ fpc = "exited" => (parsed.text = <<>> /\ parsed.offset = NoOffset)

C17_Witness ==
  /\ fpc = "exited"
  /\ AbsoluteForm(TimeRange)
  /\ Num(TimeRange, 6, 2) = 2
  /\ Num(TimeRange, 9, 2) = 29

\* the nanoseconds of one unit, as factors: d is 24 h, h is 60 m, m is 60 s
RECURSIVE NanosPerUnit(_)
NanosPerUnit(u) ==
  CASE u = "s" -> <<1000, 1000, 1000>>
    [] u = "m" -> NanosPerUnit("s") \o <<60>>
    [] u = "h" -> NanosPerUnit("m") \o <<60>>
    [] u = "d" -> NanosPerUnit("h") \o <<24>>

\* n times the factors, without any word size
RECURSIVE Product(_, _)
Product(n, fs) ==
  IF fs = <<>> THEN Trim(n) ELSE Product(MulAdd(n, Head(fs), 0), Tail(fs))

\* C18: for every accepted <integer N><unit> the resume point is now minus
\* exactly N units (d being 24 h), hence never later than now.
C18_ResumePoint ==
  (fpc = "returned" /\ parsed.kind = "resume")
    => LET N == NatOf(SubSeq(TimeRange, 1, Len(TimeRange) - 1), <<>>)
           unit == TimeRange[Len(TimeRange)]
       IN /\ parsed.offset.sign <= 0
          /\ parsed.offset.mag = Product(N, NanosPerUnit(unit))

\* C19: when the access probe succeeds no interactive flow is started; when
\* it fails the acquisition runs while CheckAuth shows the indicator; the
\* indicator is dismissed only after the acquisition has completed, and it
\* is not on the screen once the acquisition goroutine has finished; a
\* failing gcloud command ends the process and CheckAuth does not return.
C19_AuthGate ==
  /\ probe = "ok" => (gpc = "idle" /\ screen = "none")
  /\ (probe # "ok" /\ apc # "call") => gpc # "idle"
  /\ screen = "closed" => gpc = "done"
  /\ apc = "returned" /\ probe # "ok" => (gpc = "done" /\ screen = "closed")
  /\ gpc = "done" => screen # "shown"
  /\ gpc = "fatal" => (exited /\ apc # "returned")

\* the reader has nothing left to do until the file changes again
CaughtUp ==
  /\ rpc = "tailing"
  /\ ~Rotated
  /\ readPos >= Len(disk[handle])

Delivered == {out[i] : i \in DOMAIN out}
AtPath == {disk[atPath][i] : i \in DOMAIN disk[atPath]}

\* lines are delivered in the order they were written, none of them twice
InOrderOnce == \A i, j \in DOMAIN out : i < j => out[i] < out[j]

\* C20, as claimed: after a truncation and rewrite, or a replacement of the
\* file, mid-stream, the reader delivers every line written after the
\* rotation, in order and none twice: once it has caught up, every line of
\* the file at the path has been delivered.
C20_RotationAsClaimed ==
  /\ InOrderOnce
  /\ (CaughtUp /\ rotations >= 1) => AtPath \subseteq Delivered

\* C20, amended: the same for every rotation the reader detects (the path
\* refers to a different file, or the file is found shorter than at the last
\* read).
C20_RotationDetected ==
  /\ InOrderOnce
  /\ (CaughtUp /\ ~pending) => AtPath \subseteq Delivered

C20_Witness ==
  /\ CaughtUp
  /\ ~pending
  /\ rotations >= 2
  /\ Len(out) >= 2
  /\ AtPath # {}
  /\ Delivered \ AtPath # {}

\* C21: a historical loop that ended because it observed the stop flag is
\* followed by no tail session and by no further record: the reader never
\* enters Tail mode and pushes nothing in Tail mode
C21_StopEndsReader ==
  ObservedStop => /\ tailEntered = 0
                  /\ InMode(sent, "tail") = <<>>

\* the historical loop ended with a query failure
QueryFailed == fromExit = "error"

\* C22: after a query failure in Historical mode the reader does not fall
\* back to Tail mode and pushes nothing more; once it has terminated, a
\* reader with a callback has reported that error, once; and every record
\* pushed was pushed before the callback was invoked
C22_QueryFailure ==
  QueryFailed =>
    /\ tailEntered = 0
    /\ Len(sent) = sentAtFailure
    /\ (ProducerOver /\ onError) => callbacks = <<QueryErr>>
    /\ callbacks \in {<<>>, <<QueryErr>>}

\* the Watermark a Filter was built from
WatermarkOf(f) == f[2]

\* a query has been issued and the Watermark is what it was when that query
\* was built
WatermarkUnchanged == lastFilter # <<>> /\ WatermarkOf(lastFilter) = lastTime

\* C23: with finitely many entries and no failing query, the historical
\* loop of a reader that is not stopped issues finitely many queries and
\* then enters Tail mode; it leaves by the repeated filter exactly when the
\* last query left the Watermark unchanged, and starts no query after such
\* a query, whether or not the user gave a predicate
C23_HistoricalTerminates ==
  /\ [][/\ queries' > queries => ppc = "fromQuery"
        /\ (ppc = "fromLoop" /\ ppc' = "fromQuery") => ~WatermarkUnchanged
        /\ (fromExit = "none" /\ fromExit' = "repeat") => WatermarkUnchanged
       ]_vars
  /\ (~isTail /\ ppc = "start") ~> (fromExit = "repeat" /\ tailEntered = 1)

\* a reader with a user predicate has moved the Watermark, queried again
\* and entered Tail mode
C23_Witness ==
  /\ sFilter = ErrorsOnly
  /\ fromExit = "repeat"
  /\ tailEntered = 1
  /\ queries >= 2
  /\ Len(InMode(sent, "historical")) >= 1
  /\ WatermarkUnchanged

====
